---- MODULE Spec2Model ----
(***************************************************************************)
(* The user-space half of the io_uring submission/completion protocol of   *)
(* src/src/io_uring.c: ring set-up and tear-down, io_uring_get_iocb,       *)
(* io_uring_submit and io_uring_get_completion, run by one caller thread   *)
(* against a kernel that consumes the submission ring and fills the        *)
(* completion ring concurrently.                                           *)
(*                                                                         *)
(* Ring indices are C `unsigned`: they are kept modulo 2^IdxBits, a        *)
(* scaled-down width, so that the wrap of an index is a reachable state.   *)
(***************************************************************************)
EXTENDS Integers, Sequences, FiniteSets, Bags, TLC

\* ------------------------------------------------------------------ bounds
\* width of an `unsigned` index, in bits
IdxBits == 2
\* log2 of the negotiated submission-ring depth (p->sq_entries)
RingBits == 1
\* engine handles the process may hold open (its descriptor limit)
MaxFds == 2
\* operations the kernel holds accepted and not yet completed
MaxInflight == 2
\* descriptors one ring lifetime may acquire: enough to wrap iocb_tail
MaxOps == 4

RECURSIVE Pow2(_)
Pow2(n) == IF n = 0 THEN 1 ELSE 2 * Pow2(n - 1)

\* 2^IdxBits: indices are unsigned, arithmetic wraps
Modulus == Pow2(IdxBits)
\* p->sq_entries and p->cq_entries, as negotiated by io_uring_setup; the library
\* takes both from the kernel and relates them nowhere
SqEntries == Pow2(RingBits)
CqEntries == SqEntries

\* unsigned arithmetic
U(x) == x % Modulus

\* bitwise AND of two naturals, as the C operator &
RECURSIVE BitAnd(_, _)
BitAnd(a, b) ==
    IF a = 0 \/ b = 0 THEN 0
    ELSE (IF a % 2 = 1 /\ b % 2 = 1 THEN 1 ELSE 0) + 2 * BitAnd(a \div 2, b \div 2)

\* system error numbers a failing syscall may leave in errno (EINTR, ENOMEM)
Errnos == {4, 12}
\* the NULL pointer, as a slot or record position
NULLV == -1
\* the three mappings of io_uring_mmap
Regions == {"sq", "iocbs", "cq"}

VARIABLES
    \* --- engine handle and mappings
    phase,        \* "none": the caller holds no live ring; "ready": initialised
    nopen,        \* open engine handles of the process
    fd,           \* the handle the caller holds (return of queue_init), or -1
    maps,         \* regions currently mapped
    initFailed,   \* some io_uring_queue_init call has failed in io_uring_mmap
    fault,        \* a field was read through a region that is not mapped
    \* --- submission ring (SQ region, iocb buffer, struct io_uring_sq)
    sq_khead, sq_ktail, sq_kring_mask, sq_kring_entries, sq_array,
    sq_array_k,   \* the indirection array as the kernel sees it: the caller's
                  \* stores to sq_array reach it later, at the latest at a barrier
    iocbs,        \* slot -> correlation token the caller wrote into the descriptor
    iocb_head, iocb_tail,
    \* --- completion ring (CQ region)
    cq_khead, cq_ktail, cq_kring_mask, cq_kring_entries, events,
    \* --- kernel
    inflight,     \* bag of tokens accepted from the SQ and not yet completed
    \* --- the caller thread
    pc,           \* position of the caller inside a library call
    loc,          \* locals of the running call
    \* --- observation of calls
    lastOp,       \* the call that returned last
    ret,          \* its return value
    ev_out,       \* *ev_ptr of the last get_completion: record position, or NULLV
    call,         \* what the running/last call observed at entry and did
    deferred,     \* a submit left queued descriptors unpublished because the
                  \* kernel ring still held entries, and no submit has found the
                  \* ring empty since
    acquired,     \* descriptors handed out by get_iocb in this ring lifetime
    nconsumed,    \* SQ entries the kernel has consumed in this ring lifetime
    cq_fifo       \* tokens the kernel published to the CQ, not yet retrieved, oldest first

vars == <<phase, nopen, fd, maps, initFailed, fault,
          sq_khead, sq_ktail, sq_kring_mask, sq_kring_entries, sq_array,
          sq_array_k, iocbs, iocb_head, iocb_tail,
          cq_khead, cq_ktail, cq_kring_mask, cq_kring_entries, events,
          inflight, pc, loc, lastOp, ret, ev_out, call,
          deferred, acquired, nconsumed, cq_fifo>>

lifeVars == <<phase, nopen, fd, maps, initFailed, fault>>
sqShared == <<sq_khead, sq_ktail, sq_kring_mask, sq_kring_entries, sq_array,
              sq_array_k>>
cqShared == <<cq_khead, cq_ktail, cq_kring_mask, cq_kring_entries, events>>

NoLoc == [ktail |-> 0, ktail_next |-> 0, submitted |-> 0, head |-> 0]
NoCall == [op |-> "none", iocb_head |-> 0, iocb_tail |-> 0, khead |-> 0, ktail |-> 0,
           cq_khead |-> 0, cq_ktail |-> 0, entered |-> 0, published |-> 0,
           to_submit |-> 0, min_complete |-> 0, accepted |-> 0, err |-> 0,
           ev_token |-> 0, expected |-> 0, array |-> << >>,
           res |-> 0, failed |-> "none", deferred |-> FALSE]

\* a fresh ring pair as io_uring_setup creates it: zeroed memory, ring sizes set
FreshRings ==
    /\ sq_khead' = 0 /\ sq_ktail' = 0
    /\ sq_kring_mask' = SqEntries - 1 /\ sq_kring_entries' = SqEntries
    /\ sq_array' = [i \in 0 .. SqEntries - 1 |-> 0]
    /\ sq_array_k' = [i \in 0 .. SqEntries - 1 |-> 0]
    /\ iocbs' = [i \in 0 .. SqEntries - 1 |-> 0]
    /\ cq_khead' = 0 /\ cq_ktail' = 0
    /\ cq_kring_mask' = CqEntries - 1 /\ cq_kring_entries' = CqEntries
    /\ events' = [i \in 0 .. CqEntries - 1 |-> 0]
    /\ inflight' = EmptyBag
    /\ acquired' = 0 /\ nconsumed' = 0 /\ cq_fifo' = << >>
    /\ deferred' = FALSE

Init ==
    /\ phase = "none" /\ nopen = 0 /\ fd = -1 /\ maps = {}
    /\ initFailed = FALSE /\ fault = FALSE
    /\ sq_khead = 0 /\ sq_ktail = 0
    /\ sq_kring_mask = SqEntries - 1 /\ sq_kring_entries = SqEntries
    /\ sq_array = [i \in 0 .. SqEntries - 1 |-> 0]
    /\ sq_array_k = [i \in 0 .. SqEntries - 1 |-> 0]
    /\ iocbs = [i \in 0 .. SqEntries - 1 |-> 0]
    /\ iocb_head = 0 /\ iocb_tail = 0
    /\ cq_khead = 0 /\ cq_ktail = 0
    /\ cq_kring_mask = CqEntries - 1 /\ cq_kring_entries = CqEntries
    /\ events = [i \in 0 .. CqEntries - 1 |-> 0]
    /\ inflight = EmptyBag
    /\ pc = "idle" /\ loc = NoLoc
    /\ lastOp = "none" /\ ret = 0 /\ ev_out = NULLV /\ call = NoCall
    /\ acquired = 0 /\ nconsumed = 0 /\ cq_fifo = << >>
    /\ deferred = FALSE

ringVars == <<sq_khead, sq_ktail, sq_kring_mask, sq_kring_entries, sq_array,
              sq_array_k,
              iocbs, iocb_head, iocb_tail,
              cq_khead, cq_ktail, cq_kring_mask, cq_kring_entries, events,
              inflight, deferred, acquired, nconsumed, cq_fifo>>
obsVars == <<lastOp, ret, ev_out, call>>

\* ------------------------------------------------------- ring initialisation
\* munmap(sq->khead, sq->ring_sz) at the err: label
MmapErrUnmap(m) == m \ {"sq"}

\* variant: the CQ failure path forgets to unmap the iocb buffer
MmapCqFailUnmap_skip(m) == m

\* munmap(sq->iocbs, ...) when the CQ mapping fails
MmapCqFailUnmap(m) == m \ {"iocbs"}

\* io_uring_mmap: the mappings left when the mapping `failed` fails
\* ("none": all three succeed)
io_uring_mmap(m, failed) ==
    IF failed = "sq" THEN m
    ELSE IF failed = "iocbs" THEN MmapErrUnmap(m \cup {"sq"})
    ELSE IF failed = "cq" THEN MmapErrUnmap(MmapCqFailUnmap(m \cup {"sq", "iocbs"}))
    ELSE m \cup {"sq", "iocbs", "cq"}

\* io_uring_queue_init with io_uring_setup failing: returns the syscall's -1
QueueInitSetupFail ==
    /\ pc = "idle" /\ phase = "none"
    /\ \E e \in Errnos :
         call' = [NoCall EXCEPT !.op = "queue_init", !.err = e, !.failed = "setup"]
    /\ lastOp' = "queue_init" /\ ret' = -1 /\ pc' = "ret"
    /\ UNCHANGED <<lifeVars, ringVars, loc, ev_out>>

\* io_uring_queue_init with one of the three mmap calls failing: returns -errno
QueueInitMmapFail ==
    /\ pc = "idle" /\ phase = "none" /\ nopen < MaxFds
    /\ \E e \in Errnos, failed \in Regions :
         /\ maps' = io_uring_mmap(maps, failed)
         /\ ret' = -e
         /\ call' = [NoCall EXCEPT !.op = "queue_init", !.err = e, !.failed = failed]
    /\ nopen' = nopen + 1
    /\ initFailed' = TRUE
    /\ lastOp' = "queue_init" /\ pc' = "ret"
    /\ FreshRings /\ iocb_head' = 0 /\ iocb_tail' = 0
    /\ UNCHANGED <<phase, fd, fault, loc, ev_out>>

\* io_uring_queue_init succeeding: returns the handle
QueueInitOk ==
    /\ pc = "idle" /\ phase = "none" /\ nopen < MaxFds
    /\ nopen' = nopen + 1
    /\ maps' = io_uring_mmap(maps, "none")
    /\ fd' = nopen /\ ret' = nopen
    /\ phase' = "ready"
    /\ lastOp' = "queue_init"
    /\ call' = [NoCall EXCEPT !.op = "queue_init"]
    /\ FreshRings /\ iocb_head' = 0 /\ iocb_tail' = 0
    /\ pc' = "ret"
    /\ UNCHANGED <<initFailed, fault, loc, ev_out>>

\* ------------------------------------------------------------------ teardown
\* variant: the SQ region is unmapped before the iocb buffer
ExitOrder_sqFirst == <<"sq", "iocbs", "cq", "fd">>

\* the order in which io_uring_queue_exit releases
ExitOrder == <<"iocbs", "sq", "cq", "fd">>

\* io_uring_queue_exit, entered: the caller gives up the ring. Nothing reads the
\* ring contents from here on (queue_exit reads only *sq->kring_entries, and a
\* later queue_init starts from fresh rings), so the model forgets them here.
QueueExitCall ==
    /\ pc = "idle" /\ phase = "ready"
    /\ pc' = "exit"
    /\ loc' = [NoLoc EXCEPT !.submitted = 1]
    /\ call' = [NoCall EXCEPT !.op = "queue_exit"]
    /\ FreshRings /\ iocb_head' = 0 /\ iocb_tail' = 0
    /\ UNCHANGED <<lifeVars, lastOp, ret, ev_out>>

\* one release of io_uring_queue_exit: loc.submitted is the statement's number
QueueExitStep ==
    /\ pc = "exit"
    /\ LET what == ExitOrder[loc.submitted] IN
       IF what = "fd"
       THEN /\ nopen' = nopen - 1 /\ fd' = -1 /\ phase' = "none"
            /\ pc' = "ret" /\ loc' = NoLoc
            /\ lastOp' = "queue_exit" /\ ret' = 0
            /\ UNCHANGED <<maps, fault>>
       ELSE /\ maps' = maps \ {what}
            \* munmap(sq->iocbs, *sq->kring_entries * ...) reads the SQ region
            /\ fault' = (fault \/ (what = "iocbs" /\ "sq" \notin maps))
            /\ loc' = [loc EXCEPT !.submitted = @ + 1]
            /\ UNCHANGED <<nopen, fd, phase, pc, lastOp, ret>>
    /\ UNCHANGED <<initFailed, ringVars, ev_out, call>>

\* ---------------------------------------------------------------- the kernel
\* the token of the descriptor that the SQ entry at ring position `pos` names
EntryToken(pos) == iocbs[sq_array_k[BitAnd(pos, sq_kring_mask)]]

\* the bag of tokens of the n SQ entries from position `pos` on
RECURSIVE EntryTokens(_, _)
EntryTokens(pos, n) ==
    IF n = 0 THEN EmptyBag
    ELSE SetToBag({EntryToken(pos)}) (+) EntryTokens(U(pos + 1), n - 1)

Min2(a, b) == IF a < b THEN a ELSE b

\* entries one io_uring_enter(to_submit) call can accept now
EnterRoom(to_submit) ==
    Min2(Min2(to_submit, U(sq_ktail - sq_khead)), MaxInflight - BagCardinality(inflight))

\* io_uring_enter: the syscall fails (-1, errno set) or accepts n <= to_submit
\* entries of the submission ring and returns n
EnterOutcomes(to_submit) ==
    [res : {-1}, err : Errnos, n : {0}]
      \cup {[res |-> n, err |-> 0, n |-> n] : n \in 0 .. EnterRoom(to_submit)}

\* the kernel takes n entries off the submission ring
KernelAccept(n) ==
    /\ sq_khead' = U(sq_khead + n)
    /\ inflight' = inflight (+) EntryTokens(sq_khead, n)
    /\ nconsumed' = nconsumed + n

\* the kernel consumes one SQ entry on its own (submission-queue thread)
KernelConsume ==
    /\ phase = "ready"
    /\ sq_khead # sq_ktail
    /\ BagCardinality(inflight) < MaxInflight
    /\ KernelAccept(1)
    /\ UNCHANGED <<lifeVars, sq_ktail, sq_kring_mask, sq_kring_entries, sq_array,
                   sq_array_k,
                   iocbs, iocb_head, iocb_tail, cqShared, pc, loc, obsVars,
                   acquired, deferred, cq_fifo>>

\* the kernel completes an accepted operation, in any order, and publishes its
\* record at the CQ tail when the completion ring has room
KernelComplete ==
    /\ phase = "ready"
    /\ U(cq_ktail - cq_khead) < cq_kring_entries
    /\ \E t \in BagToSet(inflight) :
         /\ inflight' = inflight (-) SetToBag({t})
         /\ events' = [events EXCEPT ![BitAnd(cq_ktail, cq_kring_mask)] = t]
         /\ cq_fifo' = Append(cq_fifo, t)
    /\ cq_ktail' = U(cq_ktail + 1)
    /\ UNCHANGED <<lifeVars, sqShared, iocbs, iocb_head, iocb_tail,
                   cq_khead, cq_kring_mask, cq_kring_entries,
                   pc, loc, obsVars, acquired, deferred, nconsumed>>

\* ---------------------------------------------------------- io_uring_get_iocb
\* variant: the ring counts as full one descriptor early (>= for >)
IocbFull_early(head, tail, entries) == U(U(tail + 1) - head) >= entries

\* variant: the ring never counts as full
IocbFull_never(head, tail, entries) == FALSE

\* "All iocbs are used": next - sq->iocb_head > *sq->kring_entries
IocbFull(head, tail, entries) == U(U(tail + 1) - head) > entries

\* &sq->iocbs[sq->iocb_tail & *sq->kring_mask], as a slot index
IocbSlot(tail, mask) == BitAnd(tail, mask)

\* what get_iocb observes at entry
Entry(op) ==
    [NoCall EXCEPT !.op = op, !.iocb_head = iocb_head, !.iocb_tail = iocb_tail,
                   !.khead = sq_khead, !.ktail = sq_ktail,
                   !.cq_khead = cq_khead, !.cq_ktail = cq_ktail]

\* io_uring_get_iocb with the ring full: NULL
GetIocbFull ==
    /\ pc = "idle" /\ phase = "ready"
    /\ IocbFull(iocb_head, iocb_tail, sq_kring_entries)
    /\ lastOp' = "get_iocb" /\ ret' = NULLV /\ call' = Entry("get_iocb")
    /\ pc' = "ret"
    /\ UNCHANGED <<lifeVars, ringVars, loc, ev_out>>

\* io_uring_get_iocb handing out a slot, which the caller fills with a new token
GetIocb ==
    /\ pc = "idle" /\ phase = "ready"
    /\ acquired < MaxOps
    /\ ~IocbFull(iocb_head, iocb_tail, sq_kring_entries)
    /\ LET slot == IocbSlot(iocb_tail, sq_kring_mask) IN
       /\ ret' = slot
       /\ iocbs' = [iocbs EXCEPT ![slot] = acquired + 1]
    /\ iocb_tail' = U(iocb_tail + 1)
    /\ acquired' = acquired + 1
    /\ lastOp' = "get_iocb" /\ call' = Entry("get_iocb")
    /\ pc' = "ret"
    /\ UNCHANGED <<lifeVars, sqShared, iocb_head, cqShared, inflight,
                   loc, ev_out, deferred, nconsumed, cq_fifo>>

\* ------------------------------------------------------------ io_uring_submit
\* variant: the pending test is inverted (== for !=)
SubmitPending_inverted(khead, ktail) == khead = ktail

\* variant: pending entries are never noticed
SubmitPending_never(khead, ktail) == FALSE

\* "If we have pending IO in the kring": *sq->khead != *sq->ktail
SubmitPending(khead, ktail) == khead # ktail

\* the loop condition of the fill loop: sq->iocb_head < sq->iocb_tail
WalkCond(head, tail) == head < tail

\* variant: the store goes to every entry of the array
WalkStore_all(arr, ktail, head, mask) == [i \in DOMAIN arr |-> BitAnd(head, mask)]

\* sq->array[ktail & mask] = sq->iocb_head & mask
WalkStore(arr, ktail, head, mask) ==
    [arr EXCEPT ![BitAnd(ktail, mask)] = BitAnd(head, mask)]

\* variant: the pending path asks for the entries the ring holds
PendingCount_occupancy(khead, ktail, entries) == U(ktail - khead)

\* submitted = *sq->kring_entries on the pending path
PendingCount(khead, ktail, entries) == entries

\* min_complete of the io_uring_enter call of io_uring_submit
SubmitMinComplete == 0

\* variant: success is reported as 0 instead of the count the kernel accepted
SubmitReturn_zero(res, err) == IF res < 0 THEN res ELSE 0

\* the value io_uring_submit returns for the outcome of io_uring_enter
SubmitReturn(res, err) == res

\* io_uring_submit up to the fill loop
SubmitCall ==
    /\ pc = "idle" /\ phase = "ready"
    /\ IF SubmitPending(sq_khead, sq_ktail)
       THEN /\ loc' = [NoLoc EXCEPT !.submitted =
                          PendingCount(sq_khead, sq_ktail, sq_kring_entries)]
            /\ pc' = "submit_enter"
            /\ UNCHANGED <<lastOp, ret>>
       ELSE IF iocb_head = iocb_tail
       THEN /\ pc' = "ret" /\ loc' = NoLoc
            /\ lastOp' = "submit" /\ ret' = 0
       ELSE /\ loc' = [NoLoc EXCEPT !.ktail = sq_ktail, !.ktail_next = sq_ktail]
            /\ pc' = "submit_walk"
            /\ UNCHANGED <<lastOp, ret>>
    /\ call' = [Entry("submit") EXCEPT !.array = sq_array, !.deferred = deferred]
    /\ deferred' = (SubmitPending(sq_khead, sq_ktail) /\ iocb_head # iocb_tail)
    /\ UNCHANGED <<lifeVars, sqShared, iocbs, iocb_head, iocb_tail, cqShared,
                   inflight, ev_out, acquired, nconsumed, cq_fifo>>

\* one test of the loop condition and one pass of the fill loop
SubmitWalk ==
    /\ pc = "submit_walk"
    /\ IF WalkCond(iocb_head, iocb_tail) /\ U(loc.ktail_next + 1) # sq_khead
       THEN /\ sq_array' = WalkStore(sq_array, loc.ktail, iocb_head, sq_kring_mask)
            /\ loc' = [loc EXCEPT !.ktail = U(loc.ktail_next + 1),
                                  !.ktail_next = U(loc.ktail_next + 1),
                                  !.submitted = @ + 1]
            /\ iocb_head' = U(iocb_head + 1)
            /\ call' = [call EXCEPT !.published = @ + 1]
            /\ pc' = pc
       ELSE /\ pc' = "submit_publish"
            /\ loc' = IF WalkCond(iocb_head, iocb_tail)
                      THEN [loc EXCEPT !.ktail_next = U(@ + 1)] ELSE loc
            /\ UNCHANGED <<sq_array, iocb_head, call>>
    /\ UNCHANGED <<lifeVars, sq_khead, sq_ktail, sq_kring_mask, sq_kring_entries,
                   sq_array_k, iocbs, iocb_tail, cqShared, inflight,
                   lastOp, ret, ev_out, acquired, deferred, nconsumed, cq_fifo>>

\* variant: no barrier before the store to the tail
WriteBarrier_none(seen, written) == seen

\* write_barrier(): the stores made so far are visible to the other party;
\* `written` is the array as the caller stored it, `seen` as the kernel sees it
WriteBarrier(seen, written) == written

\* a store to the indirection array becomes visible to the kernel
StoreDrain ==
    /\ phase = "ready"
    /\ \E i \in DOMAIN sq_array :
         /\ sq_array_k[i] # sq_array[i]
         /\ sq_array_k' = [sq_array_k EXCEPT ![i] = sq_array[i]]
    /\ UNCHANGED <<lifeVars, sq_khead, sq_ktail, sq_kring_mask, sq_kring_entries,
                   sq_array, iocbs, iocb_head, iocb_tail, cqShared, inflight,
                   pc, loc, obsVars, acquired, deferred, nconsumed, cq_fifo>>

\* after the loop: return 0 when nothing was filled in, else write_barrier(),
\* store the new tail, write_barrier()
SubmitPublish ==
    /\ pc = "submit_publish"
    /\ IF loc.submitted = 0
       THEN /\ pc' = "ret" /\ loc' = NoLoc
            /\ lastOp' = "submit" /\ ret' = 0
            /\ UNCHANGED <<sq_ktail, sq_array_k>>
       ELSE /\ sq_array_k' = WriteBarrier(sq_array_k, sq_array)
            /\ sq_ktail' = loc.ktail
            /\ pc' = "submit_enter"
            /\ UNCHANGED <<loc, lastOp, ret>>
    /\ UNCHANGED <<lifeVars, sq_khead, sq_kring_mask, sq_kring_entries, sq_array,
                   iocbs, iocb_head, iocb_tail, cqShared, inflight,
                   ev_out, call, acquired, deferred, nconsumed, cq_fifo>>

\* submit: return io_uring_enter(fd, submitted, 0, IORING_ENTER_GETEVENTS)
SubmitEnter ==
    /\ pc = "submit_enter"
    /\ \E o \in EnterOutcomes(loc.submitted) :
         /\ KernelAccept(o.n)
         /\ ret' = SubmitReturn(o.res, o.err)
         /\ call' = [call EXCEPT !.entered = Min2(@ + 1, 2), !.to_submit = loc.submitted,
                                 !.min_complete = SubmitMinComplete,
                                 !.accepted = o.n, !.err = o.err, !.res = o.res]
    /\ pc' = "ret" /\ loc' = NoLoc
    /\ lastOp' = "submit"
    /\ UNCHANGED <<lifeVars, sq_ktail, sq_kring_mask, sq_kring_entries, sq_array,
                   sq_array_k,
                   iocbs, iocb_head, iocb_tail, cqShared, ev_out, acquired, deferred, cq_fifo>>

\* ---------------------------------------------------- io_uring_get_completion
\* variant: the loop never sees a record
GcAvailable_never(head, ktail) == FALSE

\* head != *cq->ktail: a completion record is visible
GcAvailable(head, ktail) == head # ktail

\* variant: the record after the head is handed back
GcRecord_next(head, mask) == BitAnd(U(head + 1), mask)

\* &cq->events[head & mask], as a record position
GcRecord(head, mask) == BitAnd(head, mask)

\* variant: the consumer index skips a record
GcAdvance_two(head) == U(head + 2)

\* *cq->khead = head + 1
GcAdvance(head) == U(head + 1)

\* min_complete of the io_uring_enter call of io_uring_get_completion
GcMinComplete == 1

\* the value io_uring_get_completion returns when io_uring_enter fails: -errno
GcErrReturn(err) == -err

\* io_uring_get_completion up to the loop: head = *cq->khead
GcCall ==
    /\ pc = "idle" /\ phase = "ready"
    /\ loc' = [NoLoc EXCEPT !.head = cq_khead]
    /\ pc' = "gc_loop"
    /\ call' = Entry("get_completion")
    /\ UNCHANGED <<lifeVars, ringVars, lastOp, ret, ev_out>>

\* the test of the loop, and on a visible record the rest of the function
GcLoop ==
    /\ pc = "gc_loop"
    /\ IF GcAvailable(loc.head, cq_ktail)
       THEN LET ev == GcRecord(loc.head, cq_kring_mask) IN
            /\ cq_khead' = GcAdvance(loc.head)
            /\ ev_out' = ev /\ ret' = 0 /\ lastOp' = "get_completion"
            /\ call' = [call EXCEPT !.cq_ktail = cq_ktail, !.ev_token = events[ev],
                          !.expected = IF cq_fifo = << >> THEN 0 ELSE Head(cq_fifo)]
            /\ cq_fifo' = IF cq_fifo = << >> THEN << >> ELSE Tail(cq_fifo)
            /\ pc' = "ret" /\ loc' = NoLoc
       ELSE /\ pc' = "gc_enter"
            /\ UNCHANGED <<cq_khead, ev_out, ret, lastOp, call, cq_fifo, loc>>
    /\ UNCHANGED <<lifeVars, sqShared, iocbs, iocb_head, iocb_tail,
                   cq_ktail, cq_kring_mask, cq_kring_entries, events,
                   inflight, acquired, deferred, nconsumed>>

\* ret = io_uring_enter(fd, 0, 1, IORING_ENTER_GETEVENTS); if (ret < 0) return -errno
GcEnter ==
    /\ pc = "gc_enter"
    /\ \E o \in EnterOutcomes(0) :
         /\ KernelAccept(o.n)
         /\ call' = [call EXCEPT !.entered = Min2(@ + 1, 2), !.to_submit = 0,
                                 !.min_complete = GcMinComplete,
                                 !.accepted = o.n, !.err = o.err, !.res = o.res]
         /\ IF o.res < 0
            THEN /\ ret' = GcErrReturn(o.err) /\ lastOp' = "get_completion"
                 /\ pc' = "ret" /\ loc' = NoLoc
            ELSE /\ pc' = "gc_loop"
                 /\ UNCHANGED <<ret, lastOp, loc>>
    /\ UNCHANGED <<lifeVars, sq_ktail, sq_kring_mask, sq_kring_entries, sq_array,
                   sq_array_k,
                   iocbs, iocb_head, iocb_tail, cqShared, ev_out, acquired, deferred, cq_fifo>>

\* ------------------------------------------------------------------ the caller
\* the caller takes the result of the call that returned and goes on
CallerResume ==
    /\ pc = "ret"
    /\ pc' = "idle"
    /\ lastOp' = "none" /\ ret' = 0 /\ ev_out' = NULLV /\ call' = NoCall
    /\ UNCHANGED <<lifeVars, ringVars, loc>>

Next ==
    \/ QueueInitSetupFail
    \/ QueueInitMmapFail
    \/ QueueInitOk
    \/ QueueExitCall
    \/ QueueExitStep
    \/ KernelConsume
    \/ KernelComplete
    \/ GetIocbFull
    \/ GetIocb
    \/ SubmitCall
    \/ SubmitWalk
    \/ SubmitPublish
    \/ StoreDrain
    \/ SubmitEnter
    \/ GcCall
    \/ GcLoop
    \/ GcEnter
    \/ CallerResume

Spec == Init /\ [][Next]_vars

\* the running get_completion goes on executing, io_uring_enter returns, and the
\* kernel completes an operation it holds when the completion ring has room
SpecFair ==
    /\ Spec
    /\ WF_vars(GcLoop) /\ WF_vars(GcEnter)
    /\ WF_vars(KernelComplete)

\* ===================================================================== claims
SubmitReturned == pc = "ret" /\ lastOp = "submit"
GetIocbReturned == pc = "ret" /\ lastOp = "get_iocb"
GcReturned == pc = "ret" /\ lastOp = "get_completion"

\* shadow occupancy the running/last call found at entry
EntryOcc == U(call.iocb_tail - call.iocb_head)

\* C1: from an empty kernel submission ring and N (1 <= N <= capacity) acquired
\* descriptors in the shadow range, one submit publishes exactly N entries
\* (ktail advances by N, io_uring_enter gets to_submit = N), returns N when the
\* kernel accepts all of them, and the N published ring entries name the N
\* acquired descriptors, each once, in order of acquisition.
C1_SubmitPublishesAll ==
    (SubmitReturned /\ call.khead = call.ktail /\ EntryOcc \in 1 .. sq_kring_entries)
    => /\ call.published = EntryOcc
       /\ sq_ktail = U(call.ktail + EntryOcc)
       /\ call.entered = 1 /\ call.to_submit = EntryOcc
       /\ (call.accepted = EntryOcc => ret = EntryOcc)
       /\ \A i \in 0 .. EntryOcc - 1 :
            EntryToken(U(call.ktail + i)) = acquired - EntryOcc + i + 1

\* C1 restricted to calls whose shadow indices have not wrapped apart
\* (iocb_head <= iocb_tail as plain numbers): there the claim holds.
C1_UnwrappedOnly ==
    (call.iocb_head <= call.iocb_tail) => C1_SubmitPublishesAll

\* C2: get_iocb returns NULL exactly when the shadow occupancy at entry equals
\* the capacity, and then leaves iocb_head and iocb_tail alone; otherwise it
\* returns slot iocb_tail & mask and advances iocb_tail by one.
C2_GetIocbContract ==
    GetIocbReturned
    => /\ (ret = NULLV) <=> (EntryOcc = sq_kring_entries)
       /\ iocb_head = call.iocb_head
       /\ ret = NULLV => iocb_tail = call.iocb_tail
       /\ ret # NULLV => /\ ret = BitAnd(call.iocb_tail, sq_kring_mask)
                         /\ iocb_tail = U(call.iocb_tail + 1)

C2_Witness == GetIocbReturned /\ ret = NULLV /\ EntryOcc = sq_kring_entries

\* C3: a submit that finds no unpublished descriptor (iocb_head = iocb_tail) and
\* an empty kernel ring (khead = ktail) returns 0, never calls io_uring_enter,
\* and leaves ktail, the indirection array and the shadow indices unchanged.
C3_EmptySubmitIsNoop ==
    (SubmitReturned /\ call.iocb_head = call.iocb_tail /\ call.khead = call.ktail)
    => /\ ret = 0 /\ call.entered = 0
       /\ sq_ktail = call.ktail /\ sq_array = call.array
       /\ iocb_head = call.iocb_head /\ iocb_tail = call.iocb_tail

C3_Witness ==
    /\ SubmitReturned /\ call.iocb_head = call.iocb_tail /\ call.khead = call.ktail
    /\ acquired > 0 /\ ret = 0

\* C4: the kernel-visible SQ occupancy ktail - khead never exceeds the capacity,
\* and after a submit that published k > 0 entries ktail equals the khead that
\* submit observed plus k.
C4_SqOccupancyBounded ==
    /\ U(sq_ktail - sq_khead) <= sq_kring_entries
    /\ (SubmitReturned /\ call.published > 0)
       => sq_ktail = U(call.khead + call.published)

C4_Witness ==
    /\ SubmitReturned /\ call.published = sq_kring_entries
    /\ U(sq_ktail - sq_khead) = sq_kring_entries

\* C5: a get_completion that returns 0 hands back exactly one record, the one at
\* CQ position khead & mask, seen with khead # ktail, and advances CQ khead by
\* exactly one; it never returns 0 with a NULL record, and it leaves khead alone
\* when it returns an error.
C5_OneRecordPerSuccess ==
    /\ (GcReturned /\ ret = 0)
       => /\ ev_out # NULLV
          /\ ev_out = BitAnd(call.cq_khead, cq_kring_mask)
          /\ call.cq_khead # call.cq_ktail
          /\ cq_khead = U(call.cq_khead + 1)
    /\ (GcReturned /\ ret # 0)
       => /\ ret < 0 /\ cq_khead = call.cq_khead

C5_Witness == GcReturned /\ ret = 0 /\ call.entered > 0 /\ ev_out # NULLV

\* C6: the records get_completion returns are the records the kernel published,
\* each once and in the order of publication: every returned record is the oldest
\* published record not yet returned, and the records between CQ khead and ktail
\* are exactly the published ones still to be returned.
C6_CompletionOrder ==
    /\ (GcReturned /\ ret = 0)
       => (call.expected # 0 /\ call.ev_token = call.expected)
    /\ Len(cq_fifo) = U(cq_ktail - cq_khead)
    /\ \A i \in 1 .. Len(cq_fifo) :
         events[BitAnd(U(cq_khead + i - 1), cq_kring_mask)] = cq_fifo[i]

\* a record returned while an operation submitted earlier is still in flight
C6_Witness ==
    /\ GcReturned /\ ret = 0 /\ call.ev_token = 2
    /\ BagIn(1, inflight)

\* C7: when io_uring_enter fails with error e, io_uring_submit and
\* io_uring_get_completion both return -e.
C7_EnterErrorPropagated ==
    ((SubmitReturned \/ GcReturned) /\ call.err # 0) => ret = -call.err

\* C8 as stated: submit calls io_uring_enter with to_submit = the number of
\* entries just published and min_complete >= 1, and returns the call's result.
C8_SubmitEnterWaitsForOne ==
    (SubmitReturned /\ call.published > 0)
    => /\ call.entered = 1 /\ call.to_submit = call.published
       /\ call.min_complete >= 1
       /\ ret = call.res

\* C8 amended: submit calls io_uring_enter with to_submit = the number of
\* entries just published and min_complete = 0, and returns the call's result.
C8_SubmitEnterArgs ==
    (SubmitReturned /\ call.published > 0)
    => /\ call.entered = 1 /\ call.to_submit = call.published
       /\ call.min_complete = 0
       /\ ret = call.res

C8_Witness ==
    /\ SubmitReturned /\ call.published = sq_kring_entries /\ call.entered = 1
    /\ ret = sq_kring_entries

C10_TeardownOrder ==
    /\ ~fault
    /\ pc = "exit"
       => /\ maps = {<<"iocbs", "sq", "cq">>[j] : j \in loc.submitted .. 3}
          /\ phase = "ready" /\ nopen > 0
    /\ (pc = "ret" /\ lastOp = "queue_exit")
       => /\ maps = {} /\ phase = "none"
          /\ ~initFailed => nopen = 0

C10_Witness ==
    /\ pc = "ret" /\ lastOp = "queue_exit" /\ ~initFailed
    /\ maps = {} /\ nopen = 0

\* C11: whenever the kernel can see SQ ktail = t, every ring position in
\* [khead, t) holds, as the kernel sees the indirection array, the slot index
\* submit stored for it; the stores to the array precede the store to ktail, and
\* ktail is stored once per submit: while submit fills the array ktail keeps the
\* value it had at entry, and then takes its final value in one store.
C11_ArrayBeforeTail ==
    /\ \A i \in 0 .. U(sq_ktail - sq_khead) - 1 :
         LET p == BitAnd(U(sq_khead + i), sq_kring_mask) IN
         /\ sq_array_k[p] = sq_array[p]
         /\ sq_array_k[p] = p
    /\ pc \in {"submit_walk", "submit_publish"} => sq_ktail = call.ktail
    /\ (pc = "submit_enter" /\ call.published > 0)
       => sq_ktail = U(call.ktail + call.published)

\* the kernel may read the tail while an array store of the running submit has
\* not yet reached it
C11_Witness ==
    /\ pc = "submit_walk" /\ call.published > 1
    /\ \E i \in DOMAIN sq_array : sq_array_k[i] # sq_array[i]
\* the running or returned submit found the kernel ring non-empty at entry
PendingAtEntry == call.op = "submit" /\ SubmitPending(call.khead, call.ktail)

\* C12 (first half): a submit that finds the kernel ring non-empty at entry
\* publishes nothing: ktail, the array and both shadow indices are as at entry
\* when it calls io_uring_enter and when it returns, and it calls enter once.
C12_PendingFrame ==
    (PendingAtEntry /\ pc \in {"submit_enter", "ret"})
    => /\ call.published = 0
       /\ sq_ktail = call.ktail
       /\ sq_array = call.array
       /\ iocb_head = call.iocb_head /\ iocb_tail = call.iocb_tail
       /\ pc = "ret" => call.entered = 1

\* C12: a submit that finds the kernel ring non-empty publishes nothing and
\* goes to io_uring_enter, the queued descriptors stay in [iocb_head, iocb_tail),
\* and the next submit that finds the ring empty publishes all of them.
C12_DeferredThenPublished ==
    /\ C12_PendingFrame
    /\ (SubmitReturned /\ call.deferred /\ ~PendingAtEntry)
       => /\ call.published = U(call.iocb_tail - call.iocb_head)
          /\ iocb_head = call.iocb_tail
          /\ sq_ktail = U(call.ktail + call.published)

\* a submit returns from the pending path with descriptors still queued
C12_Witness ==
    /\ SubmitReturned /\ PendingAtEntry /\ call.entered = 1
    /\ iocb_head # iocb_tail /\ deferred

\* C13 (as stated): on the pending path io_uring_enter is called with
\* to_submit = ktail - khead, the count of entries pending in the ring, and
\* never with more than are pending.
C13_ToSubmitIsPending ==
    (SubmitReturned /\ PendingAtEntry)
    => call.to_submit = U(call.ktail - call.khead)

\* C13: on the pending path io_uring_enter is called with to_submit = the ring
\* capacity *sq->kring_entries, whatever the number of pending entries (which is
\* at least 1 and at most the capacity); the kernel accepts no more than are
\* pending.
C13_ToSubmitIsCapacity ==
    (SubmitReturned /\ PendingAtEntry)
    => /\ call.entered = 1
       /\ call.to_submit = sq_kring_entries
       /\ U(call.ktail - call.khead) \in 1 .. call.to_submit
       /\ call.accepted <= U(call.ktail - call.khead)

\* the pending path is taken with fewer entries pending than the ring holds
C13_Witness ==
    /\ SubmitReturned /\ PendingAtEntry
    /\ U(call.ktail - call.khead) < call.to_submit
    /\ call.res >= 0
\* a step of the library's own code in operation op (not the kernel acting
\* meanwhile, and not the io_uring_enter system call)
LibStep(op) ==
    /\ call'.op = op
    /\ pc' # pc \/ loc' # loc
    /\ pc \notin {"submit_enter", "gc_enter"}

\* C14: write sets. get_iocb writes only iocb_tail (the caller then fills the
\* slot it was handed); submit writes only the array entry at the position it
\* is publishing, SQ ktail and iocb_head; get_completion writes only CQ khead;
\* no step of the library writes SQ khead, CQ ktail, the completion records or
\* the mask and entries fields, and an io_uring_enter call writes none of the
\* fields the library writes.
C14_WriteSets ==
    [][ /\ LibStep("get_iocb")
           => /\ UNCHANGED <<sq_khead, sq_ktail, sq_kring_mask, sq_kring_entries,
                             sq_array, iocb_head, cqShared>>
              /\ \A i \in DOMAIN iocbs :
                   iocbs'[i] # iocbs[i] => i = IocbSlot(iocb_tail, sq_kring_mask)
        /\ LibStep("submit")
           => /\ UNCHANGED <<sq_khead, sq_kring_mask, sq_kring_entries, iocbs,
                             iocb_tail, cqShared>>
              /\ \A i \in DOMAIN sq_array :
                   sq_array'[i] # sq_array[i] => i = BitAnd(loc.ktail, sq_kring_mask)
        /\ LibStep("get_completion")
           => UNCHANGED <<sq_khead, sq_ktail, sq_kring_mask, sq_kring_entries,
                          sq_array, iocbs, iocb_head, iocb_tail,
                          cq_ktail, cq_kring_mask, cq_kring_entries, events>>
        /\ pc \in {"submit_enter", "gc_enter"} /\ pc' # pc
           => UNCHANGED <<sq_ktail, sq_array, iocb_head, iocb_tail, cq_khead,
                          sq_kring_mask, sq_kring_entries,
                          cq_kring_mask, cq_kring_entries>>
      ]_vars

\* submit has stored an array entry that differs from the others, then
\* get_completion has moved the CQ head
C14_Witness ==
    /\ GcReturned /\ cq_khead # call.cq_khead
    /\ \E i, j \in DOMAIN sq_array : sq_array[i] # sq_array[j]
\* get_completion is running and a completion is visible or on its way
GcWaiting ==
    /\ pc \in {"gc_loop", "gc_enter"}
    /\ cq_khead # cq_ktail \/ BagToSet(inflight) # {}

\* C15: get_completion returns success only for a record the kernel has made
\* visible (CQ ktail had moved past the head read at entry); it calls
\* io_uring_enter only after finding the ring empty and tests the ring again
\* after every enter that succeeded; and with a kernel that completes what it
\* holds, a call that is waiting returns, with the record unless enter failed.
C15_GetCompletionWaits ==
    /\ []((GcReturned /\ ret = 0)
          => /\ call.cq_ktail # call.cq_khead
             /\ call.ev_token # 0 /\ ev_out = GcRecord(call.cq_khead, cq_kring_mask))
    /\ [][ /\ (pc = "gc_loop" /\ pc' = "gc_enter") => cq_ktail = loc.head
           /\ (pc = "gc_enter" /\ pc' # pc)
              => IF call'.res >= 0 THEN pc' = "gc_loop" ELSE pc' = "ret" ]_vars
    /\ GcWaiting ~> (GcReturned /\ (ret = 0 \/ call.err # 0))

\* get_completion has returned a record after two io_uring_enter calls
C15_Witness ==
    /\ GcReturned /\ ret = 0 /\ call.entered = 2
    /\ call.cq_ktail = U(call.cq_khead + 1)
\* C16: the slot get_iocb hands out is not referenced by any entry the kernel
\* ring holds at that moment (a position in [khead, ktail) whose array entry is
\* the slot's index).
C16_SlotNotPending ==
    (GetIocbReturned /\ ret # NULLV)
    => \A i \in 0 .. U(call.ktail - call.khead) - 1 :
         sq_array[BitAnd(U(call.khead + i), sq_kring_mask)] # ret
\* C17: the shadow occupancy iocb_tail - iocb_head, as an unsigned difference,
\* is at most the ring capacity in every state, also while submit walks the
\* queued descriptors and after the indices have wrapped.
C17_ShadowOccupancyBounded ==
    phase = "ready" => U(iocb_tail - iocb_head) <= sq_kring_entries

\* the descriptor buffer is full with iocb_tail wrapped below iocb_head
C17_Witness ==
    /\ phase = "ready" /\ pc = "ret" /\ lastOp = "get_iocb" /\ ret # NULLV
    /\ U(iocb_tail - iocb_head) = sq_kring_entries
    /\ iocb_tail < iocb_head

\* C18: the index arithmetic is wrap-safe. With iocb_tail wrapped below
\* iocb_head, get_iocb reports full exactly at capacity, and a submit that finds
\* the kernel ring empty publishes every descriptor in [iocb_head, iocb_tail).
C18_WrapSafe ==
    /\ (GetIocbReturned /\ call.iocb_tail < call.iocb_head)
       => ((ret = NULLV) <=> (U(call.iocb_tail - call.iocb_head) = sq_kring_entries))
    /\ (SubmitReturned /\ ~PendingAtEntry /\ call.iocb_tail < call.iocb_head)
       => /\ call.published = U(call.iocb_tail - call.iocb_head)
          /\ iocb_head = iocb_tail

\* C18 (get_iocb alone): with iocb_tail wrapped below iocb_head, get_iocb
\* reports full exactly when the unsigned difference equals the capacity.
C18_GetIocbWrapSafe ==
    (GetIocbReturned /\ call.iocb_tail < call.iocb_head)
    => ((ret = NULLV) <=> (U(call.iocb_tail - call.iocb_head) = sq_kring_entries))
\* C19: every descriptor handed out by get_iocb reaches the kernel exactly once:
\* the entries the kernel takes off the submission ring carry the descriptors in
\* the order get_iocb handed them out, none missing and none twice (the k-th
\* entry consumed is the k-th descriptor acquired).
C19_EachDescriptorOnce ==
    [][ nconsumed' > nconsumed
        => \A i \in 0 .. (nconsumed' - nconsumed - 1) :
             EntryToken(U(sq_khead + i)) = nconsumed + i + 1 ]_vars
\* C20: a queue_init that returns an error holds nothing it acquired: no mapping
\* of the attempt remains, and the number of open handles is what it was before
\* the call, also when io_uring_setup succeeded and a mapping failed.
C20_FailedInitHoldsNothing ==
    [][ (pc = "idle" /\ pc' = "ret" /\ lastOp' = "queue_init" /\ ret' < 0)
        => /\ maps' = maps
           /\ nopen' = nopen ]_vars
====
